---- MODULE Spec2Model ----
(***************************************************************************)
(* A model of aider/linter.py: the Linter class (handler registry,         *)
(* set_linter, run_cmd, lint, py_lint), the module functions               *)
(* lint_python_compile, basic_lint, tree_context, traverse_tree and the    *)
(* command line entry point main.                                          *)
(*                                                                         *)
(* Text is a sequence of tokens (Lit, Ch, PathTok, Fmt); string            *)
(* concatenation is \o.  A path is a sequence of components.  The          *)
(* collaborators (tree-sitter, TreeContext.format, compile, the external   *)
(* process, the file system) are inputs drawn from bounded sets.           *)
(***************************************************************************)
EXTENDS Integers, Sequences, FiniteSets, TLC

VARIABLES
    tree,       \* SpecTree: the syntax tree handed to traverse_tree
    tfname,     \* SpecTree: the file name handed to tree_context
    tpc,        \* SpecTree: "init", "scanned", "rendered"
    errors,     \* SpecTree: the list traverse_tree returned
    output,     \* SpecTree: the text tree_context returned
    languages,  \* SpecLint: [instance -> self.languages]
    history,    \* SpecLint: [instance -> [language -> the value of the latest set_linter, or Unset]]
    last,       \* SpecLint: the most recent call: what it consumed, did and produced
    argv,       \* SpecMain: sys.argv[1:]
    mpc,        \* SpecMain: position of main: "start", "loop", "exited"
    midx,       \* SpecMain: index of the next file of the for loop
    stdout,     \* SpecMain: what main printed, one entry per print call
    status,     \* SpecMain: the exit status of the process
    mlog        \* SpecMain: the lint calls main made, in order

vars == <<tree, tfname, tpc, errors, output, languages, history, last,
          argv, mpc, midx, stdout, status, mlog>>

treeVars == <<tree, tfname, tpc, errors, output>>
lintVars == <<languages, history, last>>
mainVars == <<argv, mpc, midx, stdout, status, mlog>>

(***************************************************************************)
(* Bounds                                                                  *)
(***************************************************************************)
MaxNodes == 3
MaxLine == 1
MaxOut == 2
MaxArgs == 2

Range(s) == {s[i] : i \in 1..Len(s)}

SeqsUpTo(S, n) == UNION {[1..k -> S] : k \in 0..n}

(***************************************************************************)
(* Syntax trees (tree_sitter nodes).  Node 1 is the root, parent[i] < i,   *)
(* the children of a node are in increasing index order.  A child never    *)
(* starts before its parent.                                               *)
(***************************************************************************)
NodeTypes == {"ERROR", "identifier"}

Parents(n) ==
    {p \in [1..n -> 0..(n - 1)] : p[1] = 0 /\ \A i \in 2..n : p[i] \in 1..(i - 1)}

TreesOfSize(n) ==
    {t \in [n : {n}, parent : Parents(n), type : [1..n -> NodeTypes],
            is_missing : [1..n -> BOOLEAN], line : [1..n -> 0..MaxLine]] :
        \A i \in 2..n : t.line[i] >= t.line[t.parent[i]]}

Trees == UNION {TreesOfSize(n) : n \in 1..MaxNodes}

\* node.children
children(t, i) ==
    LET F[k \in 0..t.n] ==
            IF k = 0 THEN <<>>
            ELSE IF t.parent[k] = i THEN Append(F[k - 1], k) ELSE F[k - 1]
    IN F[t.n]

IsError(t, i) == t.type[i] = "ERROR" \/ t.is_missing[i]

RECURSIVE traverse_tree(_, _)
RECURSIVE traverse_children(_, _, _)

\* A scan that does not descend below a node it has recorded.
traverse_tree_prune(t, node) ==
    IF IsError(t, node) THEN <<t.line[node]>>
    ELSE traverse_children(t, children(t, node), <<>>)

\* Traverse the tree to find errors
traverse_tree(t, node) ==
    LET errs0 == IF IsError(t, node) THEN <<t.line[node]>> ELSE <<>>
    IN traverse_children(t, children(t, node), errs0)

\* for child in node.children: errors += traverse_tree(child)
traverse_children(t, cs, errs) ==
    IF cs = <<>> THEN errs
    ELSE traverse_children(t, Tail(cs), errs \o traverse_tree(t, Head(cs)))

(***************************************************************************)
(* Text                                                                    *)
(***************************************************************************)
NoTree == [n |-> 0, parent |-> <<>>, type |-> <<>>, is_missing |-> <<>>, line |-> <<>>]

Tok(k, s, c, p, ls, tr) == [k |-> k, s |-> s, c |-> c, p |-> p, ls |-> ls, tr |-> tr]

\* a literal piece of text
Lit(s) == Tok("lit", s, 0, <<>>, {}, NoTree)
\* one decoded character, by code point
Ch(c) == Tok("ch", "", c, <<>>, {}, NoTree)
\* a path written out
PathTok(p) == Tok("path", "", 0, p, {}, NoTree)
\* TreeContext(fname, code, ...).format() with lines of interest ls
Fmt(p, tr, ls) == Tok("fmt", "", 0, p, ls, tr)

Hash == Lit("#")

\* Pluralises on the length of the list it is handed.
tree_context_len(fname, code, line_nums) ==
    LET s == IF Len(line_nums) > 1 THEN <<Lit("s")>> ELSE <<>>
    IN <<Hash, Lit(" Fix the error")>> \o s \o <<Lit(", see relevant line")>> \o s
         \o <<Lit(" below marked with <U+2588>.\n\n")>>
         \o <<PathTok(fname), Lit(":\n")>>
         \o <<Fmt(fname, code.tree, Range(line_nums))>>

tree_context(fname, code, line_nums) ==
    LET lois == Range(line_nums)
        s == IF Cardinality(lois) > 1 THEN <<Lit("s")>> ELSE <<>>
    IN <<Hash, Lit(" Fix the error")>> \o s \o <<Lit(", see relevant line")>> \o s
         \o <<Lit(" below marked with <U+2588>.\n\n")>>
         \o <<PathTok(fname), Lit(":\n")>>
         \o <<Fmt(fname, code.tree, lois)>>

(***************************************************************************)
(* Outcomes of a call: it returns None, returns a string, or raises.       *)
(***************************************************************************)
RetNone == [kind |-> "none", text |-> <<>>, exc |-> ""]
RetStr(t) == [kind |-> "str", text |-> t, exc |-> ""]
Raise(e) == [kind |-> "raise", text |-> <<>>, exc |-> e]

\* Python truthiness of a returned value: None and "" are false
Truthy(o) == o.kind = "str" /\ o.text # <<>>

(***************************************************************************)
(* Paths and languages                                                     *)
(***************************************************************************)
None == "None"

Cwd == <<"repo">>

Files == {<<"repo", "a.py">>, <<"repo", "c.xyz">>, <<"other", "b.js">>}

Langs == {"python", "javascript"}

\* grep_ast.filename_to_lang: by the extension of the last component
filename_to_lang(fname) ==
    LET base == fname[Len(fname)]
    IN CASE base = "a.py" -> "python"
         [] base = "b.js" -> "javascript"
         [] OTHER -> None

\* os.path.relpath(fname, start)
relpath(fname, start) ==
    LET m == IF Len(fname) < Len(start) THEN Len(fname) ELSE Len(start)
        same == {k \in 0..m : \A i \in 1..k : fname[i] = start[i]}
        k == CHOOSE x \in same : \A y \in same : y <= x
        ups == [i \in 1..(Len(start) - k) |-> ".."]
        res == ups \o SubSeq(fname, k + 1, Len(fname))
    IN IF res = <<>> THEN <<".">> ELSE res

(***************************************************************************)
(* Linter instances.  root is fixed at construction: L1 has root=None      *)
(* (the empty path), L2 is rooted at the working directory.                *)
(***************************************************************************)
Instances == {"L1", "L2"}

RootOf(i) == IF i = "L1" THEN <<>> ELSE Cwd

\* Handlers: None, a command string (its words), or a callable (its name)
NoneH == [kind |-> "none", val |-> <<>>]
CmdH(words) == [kind |-> "str", val |-> words]
CallableH(name) == [kind |-> "callable", val |-> <<name>>]

PyLintH == CallableH("py_lint")

\* self.languages = dict(python="pre-commit run --files")
DefaultLanguages == [l \in {"python"} |-> CmdH(<<"pre-commit", "run", "--files">>)]

\* the values callers register
HandlerValues == {CmdH(<<"flake8">>), CmdH(<<>>), PyLintH}

\* Every instance writes one registry shared by all of them.
set_linter_shared(langs, self, lang, cmd) ==
    [i \in DOMAIN langs |->
        [l \in DOMAIN langs[i] \cup {lang} |-> IF l = lang THEN cmd ELSE langs[i][l]]]

\* self.languages[lang] = cmd
set_linter(langs, self, lang, cmd) ==
    [langs EXCEPT ![self] =
        [l \in DOMAIN langs[self] \cup {lang} |-> IF l = lang THEN cmd ELSE langs[self][l]]]

\* dict.get(lang)
dict_get(d, lang) == IF lang \in DOMAIN d THEN d[lang] ELSE NoneH

callable(cmd) == cmd.kind = "callable"

\* if cmd:
truthy_handler(cmd) == cmd.kind = "callable" \/ (cmd.kind = "str" /\ cmd.val # <<>>)

\* Linter.__init__(encoding, root)
Linter(rt) == [root |-> rt, languages |-> DefaultLanguages]

\* the object behind instance i
Self(langs, i) == [root |-> RootOf(i), languages |-> langs[i]]

get_rel_fname(self, fname) ==
    IF self.root # <<>> THEN relpath(fname, self.root) ELSE fname

(***************************************************************************)
(* Source text.  A source text is known by what the collaborators make of  *)
(* it: the tree tree-sitter parses it to and what compile() does with it.  *)
(***************************************************************************)
\* an attribute of the exception: missing, None, or an integer
Absent == [a |-> "absent", v |-> 0]
NoneVal == [a |-> "none", v |-> 0]
IntVal(v) == [a |-> "int", v |-> v]

CompOk == [raised |-> FALSE, type |-> "", lineno |-> NoneVal, end_lineno |-> NoneVal]
CompErr(ty, l, e) == [raised |-> TRUE, type |-> ty, lineno |-> l, end_lineno |-> e]

\* compile(code, fname, "exec"): succeeds; SyntaxError with a line range;
\* SyntaxError without position (a null byte in the source);
\* RecursionError (an expression nested too deep), with no position attributes
CompOutcomes ==
    {CompOk}
    \cup {CompErr("SyntaxError", IntVal(r[1]), IntVal(r[2])) :
                r \in {q \in (1..(MaxLine + 1)) \X (1..(MaxLine + 1)) : q[1] <= q[2]}}
    \cup {CompErr("SyntaxError", NoneVal, NoneVal), CompErr("RecursionError", Absent, Absent)}

MkTree(ps, ts, ms, ls) ==
    [n |-> Len(ps), parent |-> ps, type |-> ts, is_missing |-> ms, line |-> ls]

CleanTree == MkTree(<<0, 1>>, <<"identifier", "identifier">>, <<FALSE, FALSE>>, <<0, 1>>)
OneErrTree == MkTree(<<0, 1>>, <<"identifier", "ERROR">>, <<FALSE, FALSE>>, <<0, 0>>)
SameLineTree == MkTree(<<0, 1, 2>>, <<"identifier", "ERROR", "identifier">>,
                       <<FALSE, FALSE, TRUE>>, <<0, 1, 1>>)
TwoLineTree == MkTree(<<0, 1, 1>>, <<"ERROR", "identifier", "identifier">>,
                      <<FALSE, FALSE, TRUE>>, <<0, 0, 1>>)

SourceTrees == {CleanTree, OneErrTree, SameLineTree, TwoLineTree}

Codes == [tree : SourceTrees, comp : CompOutcomes]

NoCode == [tree |-> NoTree, comp |-> CompOk]

(***************************************************************************)
(* The external process and bytes.decode()                                 *)
(***************************************************************************)
Bytes == {65, 195, 169}

\* what a run of the command does: whether it could be started, its exit
\* status, what it wrote to standard output and to standard error
Procs ==
    [spawn : {TRUE}, exit : {0, 1}, out : SeqsUpTo(Bytes, MaxOut), err : {<<>>, <<69>>}]
    \cup {[spawn |-> FALSE, exit |-> 0, out |-> <<>>, err |-> <<>>]}

NoProc == [spawn |-> FALSE, exit |-> 0, out |-> <<>>, err |-> <<>>]

RECURSIVE decode(_)
\* bytes.decode(): strict UTF-8; ok is FALSE for UnicodeDecodeError
decode(bs) ==
    IF bs = <<>> THEN [ok |-> TRUE, text |-> <<>>]
    ELSE LET b == Head(bs)
         IN IF b < 128
            THEN LET r == decode(Tail(bs))
                 IN [ok |-> r.ok, text |-> <<Ch(b)>> \o r.text]
            ELSE IF b >= 194 /\ b <= 223 /\ Len(bs) >= 2 /\ bs[2] >= 128 /\ bs[2] <= 191
            THEN LET r == decode(Tail(Tail(bs)))
                 IN [ok |-> r.ok, text |-> <<Ch((b - 192) * 64 + (bs[2] - 128))>> \o r.text]
            ELSE [ok |-> FALSE, text |-> <<>>]

\* subprocess.check_output(cmd, cwd=...): only standard output is captured
\* (stderr is inherited); a non-zero exit raises CalledProcessError whose
\* output is what was captured
check_output(proc) ==
    IF ~proc.spawn THEN [kind |-> "FileNotFoundError", output |-> <<>>]
    ELSE IF proc.exit # 0 THEN [kind |-> "CalledProcessError", output |-> proc.out]
    ELSE [kind |-> "ok", output |-> proc.out]

RunCmdHeader ==
    <<Hash, Lit(" Running: {cmd]\n"),
      Lit("If the output below indicates errors or problems, fix them.\n"),
      Lit("But if the command fixed all the issues itself, don't take further action.\n\n")>>

\* Linter.run_cmd; the argument vector is cmd.split() of cmd + " " + rel_fname
run_cmd(self, cmd, rel_fname, proc) ==
    LET co == check_output(proc)
        d == decode(co.output)
    IN IF co.kind = "FileNotFoundError" THEN Raise("FileNotFoundError")
       ELSE IF ~d.ok THEN Raise("UnicodeDecodeError")
       ELSE IF co.kind = "ok" THEN RetNone
       ELSE RetStr(RunCmdHeader \o d.text)

run_cmd_argv(self, cmd, rel_fname) ==
    [words |-> cmd.val, path |-> rel_fname, cwd |-> self.root]

NoArgv == [words |-> <<>>, path |-> <<>>, cwd |-> <<>>]

(***************************************************************************)
(* lint_python_compile, basic_lint, py_lint                                *)
(***************************************************************************)
TbHead == Lit("Traceback (most recent call last):\n")
\* the frame of lint_python_compile, with its source line when the
\* interpreter can read linter.py, and without it when it cannot
TbFrameSrc ==
    Lit("  File linter.py, line 84, in lint_python_compile\n    compile(code, fname, exec)  # USE TRACEBACK BELOW HERE\n")
TbFrame == Lit("  File linter.py, line 84, in lint_python_compile\n")

\* traceback.format_exception(type(err), err, err.__traceback__)
format_exception(err, fname, tbsrc) ==
    <<TbHead, IF tbsrc THEN TbFrameSrc ELSE TbFrame>>
    \o (IF err.type = "SyntaxError" /\ err.lineno.a = "int"
        THEN <<Tok("tbfile", "", err.lineno.v, fname, {}, NoTree)>> ELSE <<>>)
    \o <<Tok("tbexc", err.type, 0, <<>>, {}, NoTree)>>

\* target in tb_lines[i]
has_target(line) == line = TbFrameSrc

\* tb_lines[:1] + tb_lines[last_file_i + 1:], last_file_i the first line
\* holding the target, 0 when none does
filter_tb(tb_lines) ==
    LET hits == {i \in 1..Len(tb_lines) : has_target(tb_lines[i])}
        last_file_i == IF hits = {} THEN 0
                       ELSE (CHOOSE i \in hits : \A j \in hits : i <= j) - 1
    IN SubSeq(tb_lines, 1, 1) \o SubSeq(tb_lines, last_file_i + 2, Len(tb_lines))

\* list(range(lineno - 1, end_lineno))
line_range(lineno, end_lineno) == [i \in 1..(end_lineno - lineno + 1) |-> lineno - 2 + i]

lint_python_compile(fname, code, tbsrc) ==
    LET err == code.comp
    IN IF ~err.raised THEN RetNone
       ELSE IF err.lineno.a = "absent" THEN Raise("AttributeError")
       ELSE IF err.lineno.a = "none" THEN Raise("TypeError")
       ELSE IF err.end_lineno.a = "absent" THEN Raise("AttributeError")
       ELSE IF err.end_lineno.a = "none" THEN Raise("TypeError")
       ELSE RetStr(filter_tb(format_exception(err, fname, tbsrc))
                   \o <<Lit("\n")>>
                   \o tree_context(fname, code, line_range(err.lineno.v, err.end_lineno.v)))

\* Reports when the scan found nothing and stays silent when it found errors.
basic_lint_inverted(fname, code) ==
    LET lang == filename_to_lang(fname)
        errs == traverse_tree(code.tree, 1)
    IN IF lang = None THEN RetNone
       ELSE IF errs # <<>> THEN RetNone
       ELSE RetStr(tree_context(fname, code, errs))

\* parser.parse(bytes(code, "utf-8")).root_node is node 1 of code.tree
basic_lint(fname, code) ==
    LET lang == filename_to_lang(fname)
        errs == traverse_tree(code.tree, 1)
    IN IF lang = None THEN RetNone
       ELSE IF errs = <<>> THEN RetNone
       ELSE RetStr(tree_context(fname, code, errs))

\* Linter.py_lint
py_lint(fname, rel_fname, code, tbsrc) ==
    LET res == basic_lint(rel_fname, code)
    IN IF Truthy(res) THEN res ELSE lint_python_compile(fname, code, tbsrc)

(***************************************************************************)
(* Linter.lint.  env is what the call finds outside the program: whether   *)
(* the file can be read, its text, what the external command does, and     *)
(* whether the interpreter can show linter.py's source in a traceback.     *)
(* The result records, beside the outcome, what the call did.              *)
(***************************************************************************)
NoCall == [fname |-> <<>>, rel_fname |-> <<>>, code |-> NoCode]

LintBase(self) ==
    [out |-> RetNone, read |-> FALSE, looked |-> FALSE, cmd |-> NoneH, ran |-> {},
     call |-> NoCall, argv |-> NoArgv, languages |-> self.languages]

\* Reads the file before it resolves the language.
lint_read_first(self, fname, env) ==
    LET lang == filename_to_lang(fname)
        rel_fname == get_rel_fname(self, fname)
        cmd == dict_get(self.languages, lang)
        b == LintBase(self)
    IN IF ~env.exists
       THEN [b EXCEPT !.out = Raise("FileNotFoundError"), !.read = TRUE]
       ELSE IF lang = None THEN [b EXCEPT !.read = TRUE]
       ELSE IF callable(cmd)
       THEN [b EXCEPT !.out = py_lint(fname, rel_fname, env.code, env.tbsrc),
                      !.read = TRUE, !.looked = TRUE, !.cmd = cmd, !.ran = {"callable"},
                      !.call = [fname |-> fname, rel_fname |-> rel_fname, code |-> env.code]]
       ELSE IF truthy_handler(cmd)
       THEN [b EXCEPT !.out = run_cmd(self, cmd, rel_fname, env.proc),
                      !.read = TRUE, !.looked = TRUE, !.cmd = cmd, !.ran = {"run_cmd"},
                      !.argv = run_cmd_argv(self, cmd, rel_fname)]
       ELSE [b EXCEPT !.out = basic_lint(rel_fname, env.code),
                      !.read = TRUE, !.looked = TRUE, !.cmd = cmd, !.ran = {"basic_lint"},
                      !.call = [fname |-> <<>>, rel_fname |-> rel_fname, code |-> env.code]]

\* Tests "if cmd" before "callable(cmd)": a callable is run as a command.
lint_cmd_first(self, fname, env) ==
    LET lang == filename_to_lang(fname)
        rel_fname == get_rel_fname(self, fname)
        cmd == dict_get(self.languages, lang)
        b == LintBase(self)
    IN IF lang = None THEN b
       ELSE IF ~env.exists
       THEN [b EXCEPT !.out = Raise("FileNotFoundError"), !.read = TRUE]
       ELSE IF truthy_handler(cmd)
       THEN [b EXCEPT !.out = run_cmd(self, cmd, rel_fname, env.proc),
                      !.read = TRUE, !.looked = TRUE, !.cmd = cmd, !.ran = {"run_cmd"},
                      !.argv = run_cmd_argv(self, cmd, rel_fname)]
       ELSE [b EXCEPT !.out = basic_lint(rel_fname, env.code),
                      !.read = TRUE, !.looked = TRUE, !.cmd = cmd, !.ran = {"basic_lint"},
                      !.call = [fname |-> <<>>, rel_fname |-> rel_fname, code |-> env.code]]

lint(self, fname, env) ==
    LET lang == filename_to_lang(fname)
        rel_fname == get_rel_fname(self, fname)
        cmd == dict_get(self.languages, lang)
        b == LintBase(self)
    IN IF lang = None THEN b
       ELSE IF ~env.exists
       THEN [b EXCEPT !.out = Raise("FileNotFoundError"), !.read = TRUE]
       ELSE IF callable(cmd)
       THEN [b EXCEPT !.out = py_lint(fname, rel_fname, env.code, env.tbsrc),
                      !.read = TRUE, !.looked = TRUE, !.cmd = cmd, !.ran = {"callable"},
                      !.call = [fname |-> fname, rel_fname |-> rel_fname, code |-> env.code]]
       ELSE IF truthy_handler(cmd)
       THEN [b EXCEPT !.out = run_cmd(self, cmd, rel_fname, env.proc),
                      !.read = TRUE, !.looked = TRUE, !.cmd = cmd, !.ran = {"run_cmd"},
                      !.argv = run_cmd_argv(self, cmd, rel_fname)]
       ELSE [b EXCEPT !.out = basic_lint(rel_fname, env.code),
                      !.read = TRUE, !.looked = TRUE, !.cmd = cmd, !.ran = {"basic_lint"},
                      !.call = [fname |-> <<>>, rel_fname |-> rel_fname, code |-> env.code]]

\* The inputs a call can meet.  Inputs the selected handler never reads are
\* held at one value.
PlainCode(t) == [tree |-> t, comp |-> CompOk]

NoEnv == [exists |-> FALSE, code |-> NoCode, proc |-> NoProc, tbsrc |-> FALSE]

Envs(self, fname) ==
    LET lang == filename_to_lang(fname)
        cmd == dict_get(self.languages, lang)
    IN {NoEnv} \cup
       (IF lang = None THEN {[NoEnv EXCEPT !.exists = TRUE, !.code = PlainCode(CleanTree)]}
        ELSE IF cmd.kind = "callable"
        THEN {[exists |-> TRUE, code |-> c, proc |-> NoProc, tbsrc |-> b] :
                 c \in Codes, b \in BOOLEAN}
        ELSE IF cmd.kind = "str" /\ cmd.val # <<>>
        THEN {[exists |-> TRUE, code |-> PlainCode(CleanTree), proc |-> pr, tbsrc |-> FALSE] :
                 pr \in Procs}
        ELSE {[exists |-> TRUE, code |-> PlainCode(t), proc |-> NoProc, tbsrc |-> FALSE] :
                 t \in SourceTrees})

(***************************************************************************)
(* SpecLint: set_linter and lint calls on the Linter instances             *)
(***************************************************************************)
Unset == [kind |-> "unset", val |-> <<>>]

NoLast ==
    [op |-> "init", self |-> "", fname |-> <<>>, lang |-> None, env |-> NoEnv,
     out |-> RetNone, read |-> FALSE, looked |-> FALSE, cmd |-> NoneH, ran |-> {},
     call |-> NoCall, argv |-> NoArgv]

TreeIdle ==
    /\ tree = NoTree /\ tfname = <<>> /\ tpc = "off" /\ errors = <<>> /\ output = <<>>

MainIdle ==
    /\ argv = <<>> /\ mpc = "off" /\ midx = 0 /\ stdout = <<>> /\ status = 0
    /\ mlog = <<>>

LintIdle ==
    /\ languages = [i \in {} |-> 0] /\ history = [i \in {} |-> 0] /\ last = NoLast

InitLint ==
    /\ languages = [i \in Instances |-> Linter(RootOf(i)).languages]
    /\ history = [i \in Instances |-> [l \in Langs |-> Unset]]
    /\ last = NoLast
    /\ TreeIdle
    /\ MainIdle

SetLinter(i, lang, cmd) ==
    /\ languages' = set_linter(languages, i, lang, cmd)
    /\ history' = [history EXCEPT ![i][lang] = cmd]
    /\ last' = [NoLast EXCEPT !.op = "set_linter", !.self = i, !.lang = lang, !.cmd = cmd]
    /\ UNCHANGED <<treeVars, mainVars>>

LintStep(i, fname, env, r) ==
    /\ languages' = [languages EXCEPT ![i] = r.languages]
    /\ last' = [op |-> "lint", self |-> i, fname |-> fname,
                lang |-> filename_to_lang(fname), env |-> env,
                out |-> r.out, read |-> r.read, looked |-> r.looked,
                cmd |-> r.cmd, ran |-> r.ran, call |-> r.call, argv |-> r.argv]
    /\ UNCHANGED <<history, treeVars, mainVars>>

Lint(i, fname) ==
    \E env \in Envs(Self(languages, i), fname) :
        LintStep(i, fname, env, lint(Self(languages, i), fname, env))

\* L1 keeps the registry it was constructed with; L2 is reconfigured
NextLint ==
    \/ \E lang \in Langs, cmd \in HandlerValues : SetLinter("L2", lang, cmd)
    \/ \E i \in Instances, fname \in Files : Lint(i, fname)

SpecLint == InitLint /\ [][NextLint]_vars

(***************************************************************************)
(* SpecReg: both instances are reconfigured; lint meets fewer inputs       *)
(***************************************************************************)
FailingProc == [spawn |-> TRUE, exit |-> 1, out |-> <<65>>, err |-> <<>>]

RegEnvs(self, fname) ==
    {e \in Envs(self, fname) :
        /\ e.proc \in {NoProc, FailingProc}
        /\ e.code \in {NoCode, PlainCode(CleanTree), PlainCode(OneErrTree)}
        /\ ~e.tbsrc}

LintReg(i, fname) ==
    \E env \in RegEnvs(Self(languages, i), fname) :
        LintStep(i, fname, env, lint(Self(languages, i), fname, env))

NextReg ==
    \/ \E i \in Instances, lang \in Langs, cmd \in HandlerValues : SetLinter(i, lang, cmd)
    \/ \E i \in Instances, fname \in Files : LintReg(i, fname)

SpecReg == InitLint /\ [][NextReg]_vars

(***************************************************************************)
(* SpecTree: traverse_tree and tree_context applied to every tree of the   *)
(* bounds, chained as basic_lint chains them                               *)
(***************************************************************************)
InitTree ==
    /\ tree \in Trees
    /\ tfname \in Files
    /\ tpc = "init"
    /\ errors = <<>>
    /\ output = <<>>
    /\ LintIdle
    /\ MainIdle

\* errors = traverse_tree(tree.root_node)
Traverse ==
    /\ tpc = "init"
    /\ errors' = traverse_tree(tree, 1)
    /\ tpc' = "scanned"
    /\ UNCHANGED <<tree, tfname, output, lintVars, mainVars>>

\* if not errors: return; return tree_context(fname, code, errors)
Render ==
    /\ tpc = "scanned"
    /\ errors # <<>>
    /\ output' = tree_context(tfname, PlainCode(tree), errors)
    /\ tpc' = "rendered"
    /\ UNCHANGED <<tree, tfname, errors, lintVars, mainVars>>

NextTree == Traverse \/ Render

SpecTree == InitTree /\ [][NextTree]_vars

(***************************************************************************)
(* SpecMain: the command line entry point                                  *)
(***************************************************************************)
Usage == <<Lit("Usage: python linter.py <file1> <file2> ...")>>

Running == 0 - 1

\* linter = Linter(root=os.getcwd())
MainLinter == Linter(Cwd)

\* Prints whatever lint returned, None included.
main_print_always(out, printed) ==
    IF out.kind = "str" THEN Append(printed, out.text) ELSE Append(printed, <<Lit("None")>>)

\* if errors: print(errors)
main_print(out, printed) ==
    IF Truthy(out) THEN Append(printed, out.text) ELSE printed

InitMain ==
    /\ argv \in SeqsUpTo(Files, MaxArgs)
    /\ mpc = "start"
    /\ midx = 0
    /\ stdout = <<>>
    /\ status = Running
    /\ mlog = <<>>
    /\ LintIdle
    /\ TreeIdle

\* if len(sys.argv) < 2: print usage, sys.exit(1)
MainUsage ==
    /\ mpc = "start"
    /\ Len(argv) < 1
    /\ stdout' = Append(stdout, Usage)
    /\ status' = 1
    /\ mpc' = "exited"
    /\ UNCHANGED <<argv, midx, mlog, lintVars, treeVars>>

MainBegin ==
    /\ mpc = "start"
    /\ Len(argv) >= 1
    /\ mpc' = "loop"
    /\ midx' = 1
    /\ UNCHANGED <<argv, stdout, status, mlog, lintVars, treeVars>>

\* one iteration of the for loop; an exception nobody catches ends the
\* process with status 1
MainIter(file_path, out) ==
    /\ mlog' = Append(mlog, [fname |-> file_path, out |-> out])
    /\ IF out.kind = "raise"
       THEN /\ status' = 1
            /\ mpc' = "exited"
            /\ UNCHANGED <<stdout, midx>>
       ELSE /\ stdout' = main_print(out, stdout)
            /\ midx' = midx + 1
            /\ UNCHANGED <<status, mpc>>
    /\ UNCHANGED <<argv, lintVars, treeVars>>

MainLoop ==
    /\ mpc = "loop"
    /\ midx <= Len(argv)
    /\ \E env \in Envs(MainLinter, argv[midx]) :
           MainIter(argv[midx], lint(MainLinter, argv[midx], env).out)

\* main returns: the interpreter exits with status 0
MainReturn ==
    /\ mpc = "loop"
    /\ midx > Len(argv)
    /\ status' = 0
    /\ mpc' = "exited"
    /\ UNCHANGED <<argv, midx, stdout, mlog, lintVars, treeVars>>

NextMain == MainUsage \/ MainBegin \/ MainLoop \/ MainReturn

SpecMain == InitMain /\ [][NextMain]_vars

(***************************************************************************)
(* Properties                                                              *)
(***************************************************************************)
LastSelf == Self(languages, last.self)
LastRel == get_rel_fname(LastSelf, last.fname)
LastHandler == dict_get(languages[last.self], last.lang)

\* a lint call that resolved the language and read the file
Dispatched == last.op = "lint" /\ last.lang # None /\ last.env.exists

\* the UTF-8 bytes of a text of decoded characters
RECURSIVE utf8_encode(_)
utf8_encode(text) ==
    IF text = <<>> THEN <<>>
    ELSE LET c == Head(text).c
         IN (IF c < 128 THEN <<c>> ELSE <<192 + (c \div 64), 128 + (c % 64)>>)
            \o utf8_encode(Tail(text))

AllCh(text) == \A i \in 1..Len(text) : text[i].k = "ch"

HasNoError(t) == \A i \in 1..t.n : ~IsError(t, i)

\* C1: a lint call that reaches the dispatch runs exactly one strategy, the
\* one the registry entry of the language selects, and returns its result:
\* a callable is invoked with (file path, relative path, source text) and no
\* process and no generic scan is run by lint; a command string is run by
\* run_cmd; with no handler (None or an empty entry) basic_lint is run on
\* (relative path, source text).
C1_Dispatch ==
    Dispatched =>
        /\ Cardinality(last.ran) = 1
        /\ LastHandler.kind = "callable" =>
              /\ last.ran = {"callable"}
              /\ last.call = [fname |-> last.fname, rel_fname |-> LastRel,
                              code |-> last.env.code]
              /\ last.argv = NoArgv
              /\ last.out = py_lint(last.fname, LastRel, last.env.code, last.env.tbsrc)
        /\ (LastHandler.kind = "str" /\ LastHandler.val # <<>>) =>
              /\ last.ran = {"run_cmd"}
              /\ last.argv = [words |-> LastHandler.val, path |-> LastRel,
                              cwd |-> RootOf(last.self)]
              /\ last.out = run_cmd(LastSelf, LastHandler, LastRel, last.env.proc)
        /\ (LastHandler.kind = "none" \/ LastHandler.val = <<>>) =>
              /\ last.ran = {"basic_lint"}
              /\ last.call = [fname |-> <<>>, rel_fname |-> LastRel, code |-> last.env.code]
              /\ last.argv = NoArgv
              /\ last.out = basic_lint(LastRel, last.env.code)

C1_Witness ==
    /\ Dispatched
    /\ last.ran = {"callable"}
    /\ last.out.kind = "str"
    /\ last.self = "L2"
    /\ last.lang = "javascript"

\* C2: with a command handler whose process ran, lint returns None exactly
\* when the exit status is zero, and on a non-zero status it returns, and
\* never raises, a report that starts with the '#' header line and ends with
\* the captured output, verbatim, with no rendered context.
C2_ExitStatus ==
    (Dispatched /\ last.ran = {"run_cmd"} /\ last.env.proc.spawn) =>
        /\ (last.out = RetNone) <=> (last.env.proc.exit = 0)
        /\ last.env.proc.exit # 0 =>
              /\ last.out.kind = "str"
              /\ SubSeq(last.out.text, 1, Len(RunCmdHeader)) = RunCmdHeader
              /\ Head(last.out.text) = Hash
              /\ LET body == SubSeq(last.out.text, Len(RunCmdHeader) + 1, Len(last.out.text))
                 IN AllCh(body) /\ utf8_encode(body) = last.env.proc.out

\* C3: when the command exits non-zero and lint returns a report, the report
\* holds everything the command wrote to standard output and everything it
\* wrote to standard error.
C3_CombinedOutput ==
    (Dispatched /\ last.ran = {"run_cmd"} /\ last.env.proc.spawn
       /\ last.env.proc.exit # 0 /\ last.out.kind = "str") =>
        LET body == SubSeq(last.out.text, Len(RunCmdHeader) + 1, Len(last.out.text))
            bytes == utf8_encode(body)
        IN /\ Len(bytes) = Len(last.env.proc.out) + Len(last.env.proc.err)
           /\ Range(last.env.proc.out) \cup Range(last.env.proc.err) \subseteq Range(bytes)

\* C4: when the language of fname cannot be resolved, lint returns None, does
\* not raise, and has done nothing else: the file is not read, the registry is
\* not consulted, no command is executed and nothing is scanned.
C4_Unresolved ==
    (last.op = "lint" /\ last.lang = None) =>
        /\ last.out = RetNone
        /\ ~last.read
        /\ ~last.looked
        /\ last.ran = {}
        /\ last.argv = NoArgv
        /\ last.call = NoCall

C4_Witness ==
    /\ last.op = "lint"
    /\ last.lang = None
    /\ ~last.env.exists
    /\ last.out = RetNone

\* C5, as stated: for a file of a resolvable language whose tree has no ERROR
\* and no missing node, lint returns None, also on an instance still in the
\* configuration it was constructed with.
C5_Original ==
    (Dispatched /\ HasNoError(last.env.code.tree)
       /\ languages[last.self] = DefaultLanguages
       /\ decode(last.env.proc.out).ok /\ (last.ran = {"run_cmd"} => last.env.proc.spawn)) =>
        last.out = RetNone

\* C5, amended: on a tree with no ERROR and no missing node the scan is empty,
\* and lint returns None whenever the language has no handler (the generic
\* path); on an instance in its construction-time configuration that is every
\* resolvable language but python.
C5_CleanGeneric ==
    (Dispatched /\ HasNoError(last.env.code.tree)) =>
        /\ traverse_tree(last.env.code.tree, 1) = <<>>
        /\ last.ran = {"basic_lint"} => last.out = RetNone
        /\ (languages[last.self] = DefaultLanguages /\ last.lang # "python") =>
               last.out = RetNone

C5_Witness ==
    /\ Dispatched
    /\ HasNoError(last.env.code.tree)
    /\ languages[last.self] = DefaultLanguages
    /\ last.lang = "javascript"
    /\ last.ran = {"basic_lint"}
    /\ last.out = RetNone

\* C7: py_lint and lint_python_compile never raise on a compile failure: when
\* the generic scan finds nothing, a successful compile gives None and a
\* failed compile, whatever the exception and its position fields, gives a
\* report that ends with the rendered context of the reported line range.
C7_CompileReport ==
    (Dispatched /\ last.ran = {"callable"}
       /\ ~Truthy(basic_lint(last.call.rel_fname, last.call.code))) =>
        LET err == last.call.code.comp
        IN /\ ~err.raised => last.out = RetNone
           /\ err.raised =>
                 /\ last.out.kind = "str"
                 /\ Len(last.out.text) > 0
                 /\ last.out.text[Len(last.out.text)].k = "fmt"
                 /\ (err.lineno.a = "int" /\ err.end_lineno.a = "int") =>
                        /\ last.out.text[Len(last.out.text)].ls
                              = (err.lineno.v - 1)..(err.end_lineno.v - 1)
                        /\ last.out.text[Len(last.out.text)].ls # {}

\* the handler the claim expects for language l on instance i
Expected(i, l) ==
    IF history[i][l] # Unset THEN history[i][l] ELSE dict_get(DefaultLanguages, l)

C6_Used ==
    /\ \A i \in Instances, l \in Langs : dict_get(languages[i], l) = Expected(i, l)
    /\ (last.op = "lint" /\ last.looked) => last.cmd = Expected(last.self, last.lang)

C6_Step ==
    /\ last'.op = "set_linter" =>
          /\ \A j \in Instances \ {last'.self} : languages'[j] = languages[j]
          /\ DOMAIN languages'[last'.self] = DOMAIN languages[last'.self] \cup {last'.lang}
          /\ \A l \in DOMAIN languages[last'.self] \ {last'.lang} :
                 languages'[last'.self][l] = languages[last'.self][l]
          /\ languages'[last'.self][last'.lang] = last'.cmd
    /\ last'.op = "lint" => languages' = languages

\* C6: the handler lint uses for language L on instance I is the value of the
\* latest set_linter(L, .) on I, or I's construction-time default (an entry
\* for python only) when there was none; set_linter(L, cmd) changes the entry
\* for L on that instance and nothing else, and lint changes no registry.
C6_Registry == []C6_Used /\ [][C6_Step]_vars

C6_Witness ==
    /\ last.op = "lint"
    /\ last.looked
    /\ last.self = "L1"
    /\ last.lang = "python"
    /\ last.cmd = PyLintH
    /\ history["L1"]["python"] = PyLintH
    /\ history["L2"]["python"] = CmdH(<<"flake8">>)
    /\ history["L2"]["javascript"] = Unset
    /\ "javascript" \notin DOMAIN languages["L1"]

RECURSIVE Printed(_)
\* what main prints for a log of lint results
Printed(log) ==
    IF log = <<>> THEN <<>>
    ELSE LET o == log[Len(log)].out
             before == Printed(SubSeq(log, 1, Len(log) - 1))
         IN IF o.kind = "str" /\ o.text # <<>> THEN Append(before, o.text) ELSE before

NoRaise(log) == \A k \in 1..Len(log) : log[k].out.kind # "raise"

\* C8: with no file argument main prints the usage message and exits with
\* status 1 without a lint call; with file arguments it lints them in order,
\* one at a time, prints exactly the non-empty reports, and, when no lint
\* call raised, exits with status 0 however many files had issues.
C8_Main ==
    /\ Len(mlog) <= Len(argv)
    /\ \A k \in 1..Len(mlog) : mlog[k].fname = argv[k]
    /\ (mpc = "exited" /\ Len(argv) = 0) =>
          status = 1 /\ stdout = <<Usage>> /\ mlog = <<>>
    /\ (mpc # "off" /\ Len(argv) > 0) =>
          /\ stdout = Printed(mlog)
          /\ (mpc = "exited" /\ NoRaise(mlog)) => (status = 0 /\ Len(mlog) = Len(argv))
          /\ mpc = "loop" => (NoRaise(mlog) /\ Len(mlog) = midx - 1)

C8_Witness ==
    /\ mpc = "exited"
    /\ status = 0
    /\ Len(argv) = 2
    /\ Len(mlog) = 2
    /\ mlog[1].out.kind = "str"
    /\ mlog[2].out.kind = "none"
    /\ Len(stdout) = 1

ErrorLines(t) == {t.line[i] : i \in {j \in 1..t.n : IsError(t, j)}}

\* C9: the values of traverse_tree(root) are exactly the starting lines of
\* the nodes, at any depth, that are of type ERROR or are missing; the result
\* is empty exactly when the tree has no such node.
C9_Traverse ==
    tpc \in {"scanned", "rendered"} =>
        /\ Range(errors) = ErrorLines(tree)
        /\ (errors = <<>>) <=> HasNoError(tree)

\* an ERROR node below an ERROR node and a clean node in between were met
C9_Witness ==
    /\ tpc = "scanned"
    /\ tree.n = 3
    /\ tree.parent = <<0, 1, 2>>
    /\ IsError(tree, 1) /\ ~IsError(tree, 2) /\ IsError(tree, 3)
    /\ tree.line = <<0, 0, 1>>
    /\ Range(errors) = {0, 1}

SingularHeader ==
    <<Hash, Lit(" Fix the error"), Lit(", see relevant line"),
      Lit(" below marked with <U+2588>.\n\n")>>

PluralHeader ==
    <<Hash, Lit(" Fix the error"), Lit("s"), Lit(", see relevant line"), Lit("s"),
      Lit(" below marked with <U+2588>.\n\n")>>

\* C10: the header of tree_context is singular when the input holds one
\* distinct line number, however often it occurs, and plural when it holds two
\* or more; the file name and a colon follow the header.
C10_Plural ==
    tpc = "rendered" =>
        LET hdr == IF Cardinality(Range(errors)) = 1 THEN SingularHeader ELSE PluralHeader
        IN /\ SubSeq(output, 1, Len(hdr)) = hdr
           /\ SubSeq(output, Len(hdr) + 1, Len(hdr) + 2) = <<PathTok(tfname), Lit(":\n")>>

C10_Witness ==
    /\ tpc = "rendered"
    /\ Len(errors) >= 2
    /\ Cardinality(Range(errors)) = 1
    /\ SubSeq(output, 1, Len(SingularHeader)) = SingularHeader

====
